---- MODULE Spec2Model ----
(***************************************************************************)
(* Model of the Weather API (src/main.py): the weather-code classifier,    *)
(* the month/day aggregator working on a pandas DataFrame, and the         *)
(* get_weather request handler with its catch-all error policy.            *)
(*                                                                         *)
(* Python values are represented as follows.                               *)
(*   float cell   [nan |-> BOOLEAN, value |-> Int]   (NaN = missing code)  *)
(*   dict         sequence of <<key, value>> pairs in insertion order      *)
(*   DataFrame    [columns |-> Seq(name), rows |-> Seq(record)]            *)
(*   exception    [kind |-> class name, args |-> Seq(STRING)]              *)
(***************************************************************************)
EXTENDS Integers, Sequences, FiniteSets, TLC

VARIABLES
    weather_code,     \* classifier: the argument of the call
    condition,        \* classifier: the value returned ("" before the call)
    dataframe,        \* aggregator: the DataFrame object handed to the calls
    observations,     \* aggregator: copy of the DataFrame as first passed in
    results,          \* aggregator: outputs of the successive calls
    request,          \* handler: query parameters of the last request
    raised,           \* handler: exception raised inside the try block
    response,         \* handler: what the transport layer sends back
    fetch_calls,      \* handler: calls of fetch_weather_data in the request
    aggregate_calls   \* handler: calls of aggregate_weather_data in it

vars == <<weather_code, condition, dataframe, observations, results,
          request, raised, response, fetch_calls, aggregate_calls>>

classifierVars == <<weather_code, condition>>
aggregatorVars == <<dataframe, observations, results>>
handlerVars    == <<request, raised, response, fetch_calls, aggregate_calls>>

(***************************************************************************)
(* Bounds of the model                                                     *)
(***************************************************************************)
CodeBelow == 3     \* how many negative weather codes are tried
CodeMax  == 101    \* largest weather code tried on the classifier
MaxObs   == 3       \* longest DataFrame handed to the aggregator
MaxCalls == 2       \* successive aggregator calls on the same DataFrame
MaxDays  == 2       \* longest daily series the provider returns

(***************************************************************************)
(* Python values                                                           *)
(***************************************************************************)
Num(n) == [nan |-> FALSE, value |-> n]
NaN    == [nan |-> TRUE, value |-> 0]

\* x == n for a float x and an int n; NaN equals nothing
PyEq(x, n) == ~x.nan /\ x.value = n

\* x in [n1, n2, ...]
PyIn(x, list) == \E i \in 1..Len(list) : PyEq(x, list[i])

Range(s) == {s[i] : i \in 1..Len(s)}

DictKeys(d) == {d[i][1] : i \in 1..Len(d)}

\* position of key k in dict d
DictGet(d, k) == CHOOSE i \in 1..Len(d) : d[i][1] = k

DictValue(d, k) == d[DictGet(d, k)][2]

\* d1 == d2 for two dicts: same keys with the same values, order ignored
DictEq(d1, d2) == Range(d1) = Range(d2)

(***************************************************************************)
(* map_weather_code_to_condition                                           *)
(***************************************************************************)
\* the freezing drizzle and freezing rain codes are left out of the rainy list
map_without_freezing(code) ==
    IF PyIn(code, <<0, 1, 2>>) THEN "sunny"
    ELSE IF PyIn(code, <<3, 45, 48>>) THEN "cloudy"
    ELSE IF PyIn(code, <<51, 53, 55, 80, 81, 82, 61, 63, 65,
                         95, 96, 99>>) THEN "rainy"
    ELSE IF PyIn(code, <<71, 73, 75, 77, 85, 86>>) THEN "snowy"
    ELSE "unknown"

\* the code is cast to an integer first, which turns a missing code into 0
map_nan_as_zero(code) ==
    IF code.value \in {0, 1, 2} THEN "sunny"
    ELSE IF code.value \in {3, 45, 48} THEN "cloudy"
    ELSE IF code.value \in {51, 53, 55, 80, 81, 82, 61, 63, 65, 56, 57, 66,
                            67, 95, 96, 99} THEN "rainy"
    ELSE IF code.value \in {71, 73, 75, 77, 85, 86} THEN "snowy"
    ELSE "unknown"

map_weather_code_to_condition(code) ==
    IF PyIn(code, <<0, 1, 2>>) THEN "sunny"
    ELSE IF PyIn(code, <<3, 45, 48>>) THEN "cloudy"
    ELSE IF PyIn(code, <<51, 53, 55, 80, 81, 82, 61, 63, 65, 56, 57, 66, 67,
                         95, 96, 99>>) THEN "rainy"
    ELSE IF PyIn(code, <<71, 73, 75, 77, 85, 86>>) THEN "snowy"
    ELSE "unknown"

(***************************************************************************)
(* pandas DataFrame operations used by the program                         *)
(***************************************************************************)
HasColumn(df, name) == name \in Range(df.columns)

Column(df, name) == [i \in 1..Len(df.rows) |-> df.rows[i][name]]

\* df[name] = values  (adds the column, or overwrites it, in place)
SetColumn(df, name, values) ==
    [columns |-> IF HasColumn(df, name) THEN df.columns
                 ELSE Append(df.columns, name),
     rows    |-> [i \in 1..Len(df.rows) |->
                    [f \in Range(df.columns) \cup {name} |->
                        IF f = name THEN values[i] ELSE df.rows[i][f]]]]

\* df.drop(columns=[name], inplace=True)
DropColumn(df, name) ==
    [columns |-> SelectSeq(df.columns, LAMBDA c : c # name),
     rows    |-> [i \in 1..Len(df.rows) |->
                    [f \in Range(df.columns) \ {name} |-> df.rows[i][f]]]]

\* series.apply(f) for the classifier
ApplyClassifier(series) ==
    [i \in 1..Len(series) |-> map_weather_code_to_condition(series[i])]

\* the DataFrame built by fetch_weather_data from the provider's series
daily_dataframe(dates, codes) ==
    LET daily_data == [columns |-> <<"date", "weather_code">>,
                       rows    |-> [i \in 1..Len(dates) |->
                                      [date |-> dates[i],
                                       weather_code |-> codes[i]]]]
        with_day   == SetColumn(daily_data, "day",
                        [i \in 1..Len(dates) |-> dates[i].day])
    IN  SetColumn(with_day, "month", [i \in 1..Len(dates) |-> dates[i].month])

(***************************************************************************)
(* groupby(['month', 'day'])['weather_condition'].apply(list).reset_index()*)
(***************************************************************************)
KeyLess(a, b) == a[1] < b[1] \/ (a[1] = b[1] /\ a[2] < b[2])

RECURSIVE SortKeys(_)
SortKeys(S) ==
    IF S = {} THEN <<>>
    ELSE LET least == CHOOSE k \in S : \A o \in S \ {k} : KeyLess(k, o)
         IN  <<least>> \o SortKeys(S \ {least})

RowKey(row) == <<row.month, row.day>>

GroupKeys(rows) == {RowKey(rows[i]) : i \in 1..Len(rows)}

\* the conditions of the rows of one group, in row order
GroupList(rows, key) ==
    LET members == SelectSeq(rows, LAMBDA r : RowKey(r) = key)
    IN  [i \in 1..Len(members) |-> members[i].weather_condition]

GroupedFrame(rows, keys) ==
    [columns |-> <<"month", "day", "weather_condition">>,
     rows    |-> [i \in 1..Len(keys) |->
                    [month |-> keys[i][1], day |-> keys[i][2],
                     weather_condition |-> GroupList(rows, keys[i])]]]

\* keys in order of first appearance (what sort=False would give)
RECURSIVE FirstAppearance(_)
FirstAppearance(rows) ==
    IF rows = <<>> THEN <<>>
    ELSE LET before == FirstAppearance(SubSeq(rows, 1, Len(rows) - 1))
             key    == RowKey(rows[Len(rows)])
         IN  IF key \in Range(before) THEN before ELSE Append(before, key)

groupby_unsorted(df) == GroupedFrame(df.rows, FirstAppearance(df.rows))

\* one group per row: the rows are never merged
groupby_per_row(df) ==
    GroupedFrame(df.rows, [i \in 1..Len(df.rows) |-> RowKey(df.rows[i])])

groupby(df) == GroupedFrame(df.rows, SortKeys(GroupKeys(df.rows)))

(***************************************************************************)
(* collections.Counter(list), then dict(...)                               *)
(***************************************************************************)
\* every condition present is counted once
RECURSIVE Counter_distinct(_)
Counter_distinct(list) ==
    IF list = <<>> THEN <<>>
    ELSE LET counts == Counter_distinct(SubSeq(list, 1, Len(list) - 1))
             x      == list[Len(list)]
         IN  IF x \in DictKeys(counts) THEN counts
             ELSE Append(counts, <<x, 1>>)

\* every condition gets an entry, absent ones with count 0
Counter_zero_filled(list) ==
    LET all == <<"sunny", "cloudy", "rainy", "snowy", "unknown">>
    IN  [i \in 1..Len(all) |->
            <<all[i], Len(SelectSeq(list, LAMBDA x : x = all[i]))>>]

RECURSIVE Counter(_)
Counter(list) ==
    IF list = <<>> THEN <<>>
    ELSE LET counts == Counter(SubSeq(list, 1, Len(list) - 1))
             x      == list[Len(list)]
         IN  IF x \in DictKeys(counts)
             THEN [counts EXCEPT ![DictGet(counts, x)] = <<x, @[2] + 1>>]
             ELSE Append(counts, <<x, 1>>)

\* grouped.to_dict(orient="records")
to_dict(df) == df.rows

(***************************************************************************)
(* aggregate_weather_data: returns the records and the DataFrame argument  *)
(* as the call leaves it                                                   *)
(***************************************************************************)
\* the conditions land in the weather_code column as well; a cell holding a
\* string equals no integer code, which is how a NaN cell behaves
AssignConditions_inplace(df) ==
    SetColumn(SetColumn(df, "weather_condition",
                  ApplyClassifier(Column(df, "weather_code"))),
              "weather_code", [i \in 1..Len(df.rows) |-> NaN])

\* dataframe["weather_condition"] = dataframe["weather_code"].apply(...)
AssignConditions(df) ==
    SetColumn(df, "weather_condition",
              ApplyClassifier(Column(df, "weather_code")))

aggregate_weather_data(df) ==
    LET classified == AssignConditions(df)
        grouped    == groupby(classified)
        counted    == SetColumn(grouped, "weather_counts",
                          [i \in 1..Len(grouped.rows) |->
                              Counter(grouped.rows[i].weather_condition)])
        dropped    == DropColumn(counted, "weather_condition")
    IN  [dataframe |-> classified, records |-> to_dict(dropped)]

(***************************************************************************)
(* Inputs of the aggregator                                                *)
(***************************************************************************)
Date(y, m, d) == [year |-> y, month |-> m, day |-> d]

SampleDates == {Date(1999, 3, 15), Date(2021, 3, 15),
                Date(2021, 3, 16), Date(2021, 4, 15)}

SampleCodes == {Num(0), Num(61), Num(95), NaN}

Observation == [date : SampleDates, weather_code : SampleCodes]

ObservationSeqs == UNION {[1..n -> Observation] : n \in 0..MaxObs}

FrameOf(obs) ==
    daily_dataframe([i \in 1..Len(obs) |-> obs[i].date],
                    [i \in 1..Len(obs) |-> obs[i].weather_code])

EmptyFrame == daily_dataframe(<<>>, <<>>)

(***************************************************************************)
(* Exceptions and the provider                                             *)
(***************************************************************************)
Error(kind, message) == [kind |-> kind, args |-> <<message>>]

NoError == [kind |-> "", args |-> <<>>]

\* classes deriving from Exception
ExceptionClasses == {"OpenMeteoRequestsError", "ConnectionError",
                     "IndexError", "MemoryError"}

\* str(e): "" without arguments, the argument when there is one
str(e) == IF Len(e.args) = 0 THEN "" ELSE e.args[1]

\* what openmeteo.weather_api and the decoding of its response can raise
ProviderErrors ==
    {Error("OpenMeteoRequestsError", "Latitude must be in range of -90 to 90"),
     Error("ConnectionError", "Max retries exceeded"),
     Error("IndexError", "list index out of range")}

\* what can go wrong while aggregating a well-formed DataFrame
AggregationErrors == {Error("MemoryError", "Unable to allocate array")}

Latitudes  == {40, 999}
Longitudes == {-3, 500}

\* pd.date_range(start, end, freq=one day, inclusive="left") from 1940-01-01
date_range(n) == [i \in 1..n |-> Date(1940, 1, i)]

DailySeries == UNION {[1..n -> SampleCodes] : n \in 0..MaxDays}

\* fetch_weather_data on a provider response carrying the daily values
fetch_weather_data(values) == daily_dataframe(date_range(Len(values)), values)

(***************************************************************************)
(* get_weather                                                             *)
(***************************************************************************)
NoResponse == [status |-> 0, json |-> "none", body |-> <<>>]

\* the handler returned value: FastAPI serialises it with status 200
Returned(json, body) == [status |-> 200, json |-> json, body |-> body]

\* the exception left the handler: the transport answers 500
Unhandled == [status |-> 500, json |-> "none", body |-> <<>>]

\* only the provider's own error class is handled
Catches_provider_only(e) == e.kind = "OpenMeteoRequestsError"

\* except Exception as e
Catches(e) == e.kind \in ExceptionClasses

\* the except clause, or the propagation past it
OnRaise(e) ==
    IF Catches(e) THEN Returned("object", << <<"error", str(e)>> >>)
    ELSE Unhandled

(***************************************************************************)
(* Classifier specification: one call on any integer code                  *)
(***************************************************************************)
InitClassifier == weather_code = NaN /\ condition = ""

InitAggregator == dataframe = EmptyFrame /\ observations = EmptyFrame
                  /\ results = <<>>

InitHandler == /\ request = [latitude |-> 0, longitude |-> 0]
               /\ raised = NoError
               /\ response = NoResponse
               /\ fetch_calls = 0
               /\ aggregate_calls = 0

Classify ==
    /\ condition = ""
    /\ condition' = map_weather_code_to_condition(weather_code)
    /\ UNCHANGED <<weather_code, aggregatorVars, handlerVars>>

InitC == /\ weather_code \in {Num(n) : n \in (0 - CodeBelow)..CodeMax}
         /\ condition = ""
         /\ InitAggregator
         /\ InitHandler

NextC == Classify

SpecClassifier == InitC /\ [][NextC]_vars

(***************************************************************************)
(* Aggregator specification: any DataFrame, then successive calls on it    *)
(***************************************************************************)
Aggregate ==
    /\ Len(results) < MaxCalls
    /\ LET out == aggregate_weather_data(dataframe)
       IN  /\ dataframe' = out.dataframe
           /\ results' = Append(results, out.records)
    /\ UNCHANGED <<observations, classifierVars, handlerVars>>

InitA == /\ dataframe \in {FrameOf(obs) : obs \in ObservationSeqs}
         /\ observations = dataframe
         /\ results = <<>>
         /\ InitClassifier
         /\ InitHandler

NextA == Aggregate

SpecAggregator == InitA /\ [][NextA]_vars

(***************************************************************************)
(* Handler specification: requests served one after the other, each with   *)
(* its own DataFrame                                                       *)
(***************************************************************************)
\* fetch and aggregation succeed
GetWeatherReturns(latitude, longitude) ==
    \E values \in DailySeries :
        LET daily == fetch_weather_data(values)
            out   == aggregate_weather_data(daily)
        IN  /\ request' = [latitude |-> latitude, longitude |-> longitude]
            /\ observations' = daily
            /\ dataframe' = out.dataframe
            /\ results' = <<out.records>>
            /\ raised' = NoError
            /\ response' = Returned("array", out.records)
            /\ fetch_calls' = 1
            /\ aggregate_calls' = 1
            /\ UNCHANGED classifierVars

\* fetch_weather_data raises
GetWeatherFetchRaises(latitude, longitude) ==
    \E e \in ProviderErrors :
        /\ request' = [latitude |-> latitude, longitude |-> longitude]
        /\ observations' = EmptyFrame
        /\ dataframe' = EmptyFrame
        /\ results' = <<>>
        /\ raised' = e
        /\ response' = OnRaise(e)
        /\ fetch_calls' = 1
        /\ aggregate_calls' = 0
        /\ UNCHANGED classifierVars

\* fetch succeeds, aggregate_weather_data raises
GetWeatherAggregateRaises(latitude, longitude) ==
    \E values \in DailySeries, e \in AggregationErrors :
        LET daily == fetch_weather_data(values)
        IN  /\ request' = [latitude |-> latitude, longitude |-> longitude]
            /\ observations' = daily
            /\ dataframe' = daily
            /\ results' = <<>>
            /\ raised' = e
            /\ response' = OnRaise(e)
            /\ fetch_calls' = 1
            /\ aggregate_calls' = 1
            /\ UNCHANGED classifierVars

Init == InitClassifier /\ InitAggregator /\ InitHandler

Next ==
    \E latitude \in Latitudes, longitude \in Longitudes :
        \/ GetWeatherReturns(latitude, longitude)
        \/ GetWeatherFetchRaises(latitude, longitude)
        \/ GetWeatherAggregateRaises(latitude, longitude)

Spec == Init /\ [][Next]_vars

(***************************************************************************)
(* The classification table of the specification                           *)
(***************************************************************************)
SunnyCodes  == {0, 1, 2}
CloudyCodes == {3, 45, 48}
RainyCodes  == {51, 53, 55, 56, 57, 61, 63, 65, 66, 67, 80, 81, 82, 95, 96, 99}
SnowyCodes  == {71, 73, 75, 77, 85, 86}
ListedCodes == SunnyCodes \cup CloudyCodes \cup RainyCodes \cup SnowyCodes
Conditions  == {"sunny", "cloudy", "rainy", "snowy", "unknown"}

(***************************************************************************)
(* Helpers of the properties                                               *)
(***************************************************************************)
RECURSIVE SumValues(_)
SumValues(d) == IF d = <<>> THEN 0 ELSE d[1][2] + SumValues(Tail(d))

RecordKey(rec) == <<rec.month, rec.day>>

\* indices of the input rows of one (month, day)
RowsOf(rows, key) == {i \in 1..Len(rows) : RowKey(rows[i]) = key}

InputKeys == GroupKeys(observations.rows)

\* list == list for two record lists: same records in the same order, the
\* weather_counts compared as dicts
RecordsEq(a, b) ==
    /\ Len(a) = Len(b)
    /\ \A i \in 1..Len(a) :
          /\ RecordKey(a[i]) = RecordKey(b[i])
          /\ DictEq(a[i].weather_counts, b[i].weather_counts)

Permuted(df, p) ==
    [df EXCEPT !.rows = [i \in 1..Len(df.rows) |-> df.rows[p[i]]]]

\* C1: map_weather_code_to_condition returns a condition for every integer
\* code, and that condition is the one the table gives: sunny, cloudy, rainy
\* or snowy exactly for the listed codes, unknown for every other integer.
C1_ClassifierFollowsTable ==
    condition # "" =>
        LET n == weather_code.value
        IN  /\ condition \in Conditions
            /\ (condition = "sunny")   <=> (n \in SunnyCodes)
            /\ (condition = "cloudy")  <=> (n \in CloudyCodes)
            /\ (condition = "rainy")   <=> (n \in RainyCodes)
            /\ (condition = "snowy")   <=> (n \in SnowyCodes)
            /\ (condition = "unknown") <=> (n \notin ListedCodes)

C1_Witness == weather_code = Num(17) /\ condition = "unknown"

\* C2: the (month, day) pairs of the output records are exactly the distinct
\* pairs of the input, each in one record; an empty input gives no record.
C2_Completeness ==
    \A c \in 1..Len(results) :
        LET out == results[c]
        IN  /\ {RecordKey(out[i]) : i \in 1..Len(out)} = InputKeys
            /\ \A i, j \in 1..Len(out) :
                  RecordKey(out[i]) = RecordKey(out[j]) => i = j
            /\ (observations.rows = <<>>) => (out = <<>>)

C2_Witness ==
    /\ Len(results) >= 1
    /\ Len(observations.rows) = 3
    /\ Len(results[1]) = 2

\* C3: the counts of a record add up to the number of input observations of
\* its (month, day), and all counts together to the length of the input.
C3_CountConservation ==
    \A c \in 1..Len(results) :
        LET out   == results[c]
            total == [i \in 1..Len(out) |-> <<i, SumValues(out[i].weather_counts)>>]
        IN  /\ \A i \in 1..Len(out) :
                  SumValues(out[i].weather_counts)
                      = Cardinality(RowsOf(observations.rows, RecordKey(out[i])))
            /\ SumValues(total) = Len(observations.rows)

C3_Witness ==
    /\ Len(results) >= 1
    /\ \E i \in 1..Len(results[1]) :
          /\ Len(results[1][i].weather_counts) = 2
          /\ SumValues(results[1][i].weather_counts) = 3

\* C6: an observation with a missing weather code is kept: its (month, day)
\* has a record, and the unknown count of that record is the number of the
\* group's observations whose code is missing or not in the table.
C6_MissingCodeCounted ==
    \A c \in 1..Len(results), key \in InputKeys :
        LET out     == results[c]
            rows    == observations.rows
            unknown == {i \in RowsOf(rows, key) :
                            \/ rows[i].weather_code.nan
                            \/ rows[i].weather_code.value \notin ListedCodes}
        IN  (\E i \in RowsOf(rows, key) : rows[i].weather_code.nan) =>
                \E r \in 1..Len(out) :
                    /\ RecordKey(out[r]) = key
                    /\ "unknown" \in DictKeys(out[r].weather_counts)
                    /\ DictValue(out[r].weather_counts, "unknown")
                           = Cardinality(unknown)

C6_Witness ==
    /\ Len(results) >= 1
    /\ Len(observations.rows) = 2
    /\ \A i \in 1..2 : observations.rows[i].weather_code.nan
    /\ results[1] = <<[month |-> 3, day |-> 16,
                       weather_counts |-> << <<"unknown", 2>> >>]>>

\* the example of the specification as input
ExampleInput ==
    /\ Len(observations.rows) = 3
    /\ RowKey(observations.rows[1]) = <<3, 15>>
    /\ observations.rows[1].weather_code = Num(0)
    /\ RowKey(observations.rows[2]) = <<3, 15>>
    /\ observations.rows[2].weather_code = Num(61)
    /\ RowKey(observations.rows[3]) = <<3, 16>>
    /\ observations.rows[3].weather_code = Num(95)

ExampleOutput ==
    <<[month |-> 3, day |-> 15,
       weather_counts |-> << <<"sunny", 1>>, <<"rainy", 1>> >>],
      [month |-> 3, day |-> 16,
       weather_counts |-> << <<"rainy", 1>> >>]>>

\* C7: in every record a condition is a key of weather_counts exactly when
\* some input observation of that (month, day) classifies to it, its value is
\* the number of such observations, and no value is 0; the example input
\* (3,15,code 0), (3,15,code 61), (3,16,code 95) gives the example output.
C7_PerConditionCounts ==
    \A c \in 1..Len(results) :
        LET out  == results[c]
            rows == observations.rows
            having(r, cond) ==
                {i \in RowsOf(rows, RecordKey(out[r])) :
                    map_weather_code_to_condition(rows[i].weather_code) = cond}
            CountsRight(r) ==
                LET counts == out[r].weather_counts
                IN  /\ DictKeys(counts) \subseteq Conditions
                    /\ Len(counts) = Cardinality(DictKeys(counts))
                    /\ \A cond \in Conditions :
                          /\ (cond \in DictKeys(counts))
                                <=> (having(r, cond) # {})
                          /\ (cond \in DictKeys(counts)) =>
                                (DictValue(counts, cond)
                                    = Cardinality(having(r, cond)))
                    /\ \A i \in 1..Len(counts) : counts[i][2] # 0
        IN  /\ \A r \in 1..Len(out) : CountsRight(r)
            /\ (ExampleInput => (out = ExampleOutput))

C7_Witness ==
    /\ ExampleInput
    /\ Len(results) >= 1
    /\ results[1] = ExampleOutput

\* C8: the output records are in strictly ascending order of month, then
\* day, and every permutation of the input gives an equal output: when the
\* first call has returned, every permutation of its input returns the same,
\* and every later call returns what the first returned.
C8_DeterministicOrder ==
    /\ \A c \in 1..Len(results) :
          LET out == results[c]
          IN  /\ \A i, j \in 1..Len(out) :
                    i < j => KeyLess(RecordKey(out[i]), RecordKey(out[j]))
              /\ RecordsEq(out, results[1])
    /\ Len(results) = 1 =>
          \A p \in Permutations(1..Len(observations.rows)) :
              RecordsEq(aggregate_weather_data(Permuted(observations, p)).records,
                        results[1])

C8_Witness ==
    /\ Len(results) >= 1
    /\ Len(observations.rows) = 3
    /\ RowKey(observations.rows[1]) = <<4, 15>>
    /\ RowKey(observations.rows[2]) = <<3, 16>>
    /\ RowKey(observations.rows[3]) = <<3, 15>>
    /\ Len(results[1]) = 3
    /\ RecordKey(results[1][1]) = <<3, 15>>
    /\ RecordKey(results[1][3]) = <<4, 15>>

\* C9: a second call on the same DataFrame object, as the first call left
\* it, returns the same records in the same order with the same content.
C9_Idempotence ==
    Len(results) >= 2 => \A c \in 2..Len(results) : results[c] = results[1]

C9_Witness ==
    /\ Len(results) = 2
    /\ Len(results[2]) = 2
    /\ \E i \in 1..Len(observations.rows) :
          ~observations.rows[i].weather_code.nan

\* C10: after a call the DataFrame passed in is as it was before the call:
\* same columns, same rows, same fields.
C10_InputUnchanged ==
    Len(results) >= 1 => dataframe = observations

\* C4: when fetch_weather_data or aggregate_weather_data raises, the handler
\* returns normally: status 200, a body with the single key error holding the
\* message whatever the kind of error, and neither call is made again.
C4_CatchAll ==
    raised # NoError =>
        /\ response.status = 200
        /\ response.json = "object"
        /\ Len(response.body) = 1
        /\ DictKeys(response.body) = {"error"}
        /\ DictValue(response.body, "error") = raised.args[1]
        /\ fetch_calls = 1
        /\ aggregate_calls <= 1
        /\ results = <<>>

C4_Witness ==
    /\ raised.kind = "MemoryError"
    /\ aggregate_calls = 1
    /\ response = Returned("object",
                      << <<"error", "Unable to allocate array">> >>)

====
